---- MODULE Spec2Model ----
(***************************************************************************)
(* A model of fontmake's FontProject (Lib/fontmake/font_project.py):       *)
(*   - run_from_ufos, the per-format build branches and save_otfs, over    *)
(*     abstract Font objects that record the in-place stages applied;      *)
(*   - subset_otf_from_ufo, over glyph orders, export flags and keep-list; *)
(*   - decompose_glyphs / _deep_copy_contours, over contours of points and *)
(*     affine component transforms, once with the recursion as an operator *)
(*     and once unfolded into call frames (component cycles allowed);      *)
(*   - FDKFeatureCompiler.setupFile_featureTables, over the makeotf        *)
(*     report and the layout tables of the outline font.                   *)
(* Each part has its own specification over the shared variables.          *)
(***************************************************************************)
EXTENDS Integers, Sequences, FiniteSets, Bags, TLC

VARIABLES
    args,        \* the arguments of the call under study
    pc,          \* position of the call
    ufos,        \* run_from_ufos: the local list of Font objects
    need_reload, \* run_from_ufos: the local flag
    calls,       \* collaborator calls made so far, in order
    files,       \* output files: path -> binary
    dirs,        \* output directories that exist
    glyphs,      \* decompose_glyphs: the font, name -> [contours, components]
    todo,        \* decompose_glyphs: glyphs the loop has not visited yet
    include,     \* subset_otf_from_ufo: the list handed to the subsetter
    outline,     \* FDKFeatureCompiler: the tables of self.outline, tag -> origin
    stack        \* _deep_copy_contours: the frames of the calls in progress

vars == <<args, pc, ufos, need_reload, calls, files, dirs, glyphs, todo, include, outline, stack>>

\* ------------------------------------------------------------------ bounds
MaxOutput == 3      \* longest `output` list
NumFonts == 2       \* longest `ufos` list

\* ---------------------------------------------------------- Python values
None == "None"
True == "True"
False == "False"
Bool(b) == IF b THEN True ELSE False

Range(s) == {s[i] : i \in DOMAIN s}
BoundedSeq(S, n) == UNION {[1..k -> S] : k \in 0..n}

\* ------------------------------------------------------------ the sources
\* UFO sources on disk.  Each has a family-style name and the Glyphs flags
\* that save_otfs reads.
SourcePaths == {"Plain.ufo", "Keep.ufo", "NoExport.ufo", "NoProd.ufo"}

Formats == {"ufo", "otf", "ttf", "ttf-interpolatable", "variable"}

\* Font(path): a freshly loaded object; muts lists the in-place outline
\* mutations applied to this object since it was loaded.
Font(path) ==
    [path |-> path,
     name |-> path,
     keepGlyphs |-> (path = "Keep.ufo"),
     unexported |-> (path = "NoExport.ufo"),
     dontUseProductionNames |-> (path = "NoProd.ufo"),
     muts |-> <<>>]

font_name(ufo) == ufo.name

\* ------------------------------------------------------------- the stages
\* A build state s threads the locals and the outside world through a call:
\* [ufos, calls, files, dirs].
Mutate(fonts, op) == [i \in DOMAIN fonts |-> [fonts[i] EXCEPT !.muts = Append(@, op)]]

decompose_glyphs(s) ==
    [s EXCEPT !.calls = Append(@, [op |-> "decompose_glyphs", ufos |-> s.ufos]),
              !.ufos = Mutate(@, "decompose_glyphs")]

remove_overlaps(s) ==
    [s EXCEPT !.calls = Append(@, [op |-> "remove_overlaps", ufos |-> s.ufos]),
              !.ufos = Mutate(@, "remove_overlaps")]

convert_curves(s, compatible) ==
    IF compatible
    THEN [s EXCEPT !.calls = Append(@, [op |-> "fonts_to_quadratic", ufos |-> s.ufos]),
                   !.ufos = Mutate(@, "fonts_to_quadratic")]
    ELSE [s EXCEPT !.calls = @ \o [i \in DOMAIN s.ufos |->
                                     [op |-> "font_to_quadratic", ufos |-> <<s.ufos[i]>>]],
                   !.ufos = Mutate(@, "font_to_quadratic")]

\* ------------------------------------------------------------ output paths
output_dir(ext, is_instance, interpolatable, autohinted) ==
    [parent |-> IF autohinted THEN "autohinted" ELSE "",
     prefix |-> IF is_instance THEN "instance_" ELSE "master_",
     ext |-> ext,
     suffix |-> IF interpolatable THEN "_interpolatable" ELSE ""]

\* _output_path creates the directory on demand and returns the path.
makedirs(s, out_dir) ==
    IF out_dir \in s.dirs THEN s
    ELSE [s EXCEPT !.dirs = @ \cup {out_dir},
                   !.calls = Append(@, [op |-> "makedirs", dir |-> out_dir])]

output_path(ufo, ext, is_instance, interpolatable, autohinted) ==
    [dir |-> output_dir(ext, is_instance, interpolatable, autohinted),
     file |-> font_name(ufo), ext |-> ext]

\* ---------------------------------------------------------------- save_otfs
\* The save state adds the two locals that save_otfs assigns inside its loop:
\* [ufos, calls, files, dirs, subset, use_production_names].
Ext(kw) == IF kw.ttf THEN "ttf" ELSE "otf"

resolve_use_production_names(use_production_names, ufo) ==
    IF use_production_names = None
    THEN Bool(~ufo.dontUseProductionNames)
    ELSE use_production_names

resolve_subset(subset, ufo) ==
    IF subset = None
    THEN Bool(ufo.keepGlyphs \/ ufo.unexported)
    ELSE subset

compile_and_save(s, ufo, kw) ==
    LET otf_path == output_path(ufo, Ext(kw), kw.is_instance, kw.interpolatable, FALSE)
        s1 == makedirs(s, otf_path.dir)
        upn == resolve_use_production_names(s.use_production_names, ufo)
        otf == [name |-> font_name(ufo), outlines |-> Ext(kw), muts |-> ufo.muts,
                useProductionNames |-> upn, subsetted |-> FALSE, hinted |-> FALSE]
    IN [s1 EXCEPT !.use_production_names = upn,
                  !.calls = @ \o <<[op |-> IF kw.ttf THEN "compileTTF" ELSE "compileOTF",
                                    ufos |-> <<ufo>>, useProductionNames |-> upn],
                                   [op |-> "save", ufos |-> <<ufo>>, path |-> otf_path]>>,
                  !.files = (otf_path :> otf) @@ @]

subset_step(s, ufo, kw) ==
    LET otf_path == output_path(ufo, Ext(kw), kw.is_instance, kw.interpolatable, FALSE)
        sub == resolve_subset(s.subset, ufo)
        s1 == [s EXCEPT !.subset = sub]
    IN IF sub = True
       THEN [s1 EXCEPT !.calls = Append(@, [op |-> "subset_otf_from_ufo", ufos |-> <<ufo>>,
                                            path |-> otf_path]),
                       !.files = [@ EXCEPT ![otf_path].subsetted = TRUE]]
       ELSE s1

autohint_step(s, ufo, kw) ==
    IF kw.ttf /\ kw.autohint # None
    THEN LET otf_path == output_path(ufo, Ext(kw), kw.is_instance, kw.interpolatable, FALSE)
             hinted_otf_path ==
                 output_path(ufo, Ext(kw), kw.is_instance, kw.interpolatable, TRUE)
             s1 == makedirs(s, hinted_otf_path.dir)
         IN [s1 EXCEPT !.calls = Append(@, [op |-> "ttfautohint", ufos |-> <<ufo>>,
                                            from |-> otf_path, path |-> hinted_otf_path,
                                            input |-> s.files[otf_path]]),
                       !.files = (hinted_otf_path :>
                                     [s.files[otf_path] EXCEPT !.hinted = TRUE]) @@ @]
    ELSE s

\* One iteration of the loop over ufos.
save_one_hint_first(s, ufo, kw) ==
    subset_step(autohint_step(compile_and_save(s, ufo, kw), ufo, kw), ufo, kw)

save_one(s, ufo, kw) == autohint_step(subset_step(compile_and_save(s, ufo, kw), ufo, kw), ufo, kw)

RECURSIVE save_loop(_, _, _)
save_loop(s, i, kw) ==
    IF i > Len(s.ufos) THEN s
    ELSE save_loop(save_one(s, s.ufos[i], kw), i + 1, kw)

save_otfs(s, kw) ==
    LET s0 == [ufos |-> s.ufos, calls |-> s.calls, files |-> s.files, dirs |-> s.dirs,
               subset |-> kw.subset, use_production_names |-> kw.use_production_names]
        s1 == save_loop(s0, 1, kw)
    IN [ufos |-> s1.ufos, calls |-> s1.calls, files |-> s1.files, dirs |-> s1.dirs]

\* ----------------------------------------------------- the format branches
build_otfs_overlaps_first(s, rm_overlaps, kw) ==
    LET s0 == [s EXCEPT !.calls = Append(@, [op |-> "build_otfs", ufos |-> s.ufos])]
        s1 == IF rm_overlaps THEN remove_overlaps(s0) ELSE s0
        s2 == decompose_glyphs(s1)
    IN save_otfs(s2, kw)

build_otfs(s, rm_overlaps, kw) ==
    LET s0 == [s EXCEPT !.calls = Append(@, [op |-> "build_otfs", ufos |-> s.ufos])]
        s1 == decompose_glyphs(s0)
        s2 == IF rm_overlaps THEN remove_overlaps(s1) ELSE s1
    IN save_otfs(s2, kw)

build_ttfs(s, rm_overlaps, kw) ==
    LET s0 == [s EXCEPT !.calls = Append(@, [op |-> "build_ttfs", ufos |-> s.ufos])]
        s1 == IF rm_overlaps THEN remove_overlaps(s0) ELSE s0
        s2 == convert_curves(s1, FALSE)
    IN save_otfs(s2, [kw EXCEPT !.ttf = TRUE])

build_interpolatable_ttfs(s, kw) ==
    LET s0 == [s EXCEPT !.calls = Append(@, [op |-> "build_interpolatable_ttfs",
                                            ufos |-> s.ufos])]
        s1 == convert_curves(s0, TRUE)
    IN save_otfs(s1, [kw EXCEPT !.ttf = TRUE, !.interpolatable = TRUE])

\* ------------------------------------------------------------ run_from_ufos
\* `ufos = [Font(path) for path in ufo_paths]`
load(ufo_paths) == [i \in DOMAIN ufo_paths |-> Font(ufo_paths[i])]

reload_never(need, fonts, ufo_paths) == fonts

reload(need, fonts, ufo_paths) == IF need THEN load(ufo_paths) ELSE fonts

wants_otf(output) == "otf" \in Range(output)
wants_ttf(output) == "ttf" \in Range(output)
wants_interpolatable_only(output) == "ttf-interpolatable" \in Range(output)

wants_interpolatable(output) ==
    "ttf-interpolatable" \in Range(output) \/ "variable" \in Range(output)
wants_variable(output) == "variable" \in Range(output)

State == [ufos |-> ufos, calls |-> calls, files |-> files, dirs |-> dirs]

Install(s) ==
    /\ ufos' = s.ufos
    /\ calls' = s.calls
    /\ files' = s.files
    /\ dirs' = s.dirs

\* The keyword arguments run_from_ufos passes along to save_otfs.
RunKw ==
    [ttf |-> FALSE, is_instance |-> args.is_instance, interpolatable |-> FALSE,
     autohint |-> args.autohint, subset |-> args.subset,
     use_production_names |-> args.use_production_names]

\* Lines 353-373: the early return for output == {'ufo'}, the initial load.
RunStart ==
    /\ pc = "start"
    /\ IF Range(args.output) = {"ufo"}
       THEN /\ pc' = "returned"
            /\ UNCHANGED ufos
       ELSE /\ pc' = "otf"
            /\ ufos' = load(args.ufos)
    /\ need_reload' = FALSE
    /\ UNCHANGED <<args, calls, files, dirs, glyphs, todo, include, outline, stack>>

RunOtf ==
    /\ pc = "otf"
    /\ pc' = "ttf"
    /\ IF wants_otf(args.output)
       THEN /\ Install(build_otfs(State, args.remove_overlaps, RunKw))
            /\ need_reload' = TRUE
       ELSE UNCHANGED <<ufos, calls, files, dirs, need_reload>>
    /\ UNCHANGED <<args, glyphs, todo, include, outline, stack>>

RunTtf ==
    /\ pc = "ttf"
    /\ pc' = "interpolatable"
    /\ IF wants_ttf(args.output)
       THEN /\ Install(build_ttfs([State EXCEPT !.ufos = reload(need_reload, ufos, args.ufos)],
                                  args.remove_overlaps, RunKw))
            /\ need_reload' = TRUE
       ELSE UNCHANGED <<ufos, calls, files, dirs, need_reload>>
    /\ UNCHANGED <<args, glyphs, todo, include, outline, stack>>

RunInterpolatable ==
    /\ pc = "interpolatable"
    /\ pc' = "variable"
    /\ IF wants_interpolatable(args.output)
       THEN Install(build_interpolatable_ttfs(
                       [State EXCEPT !.ufos = reload(need_reload, ufos, args.ufos)], RunKw))
       ELSE UNCHANGED <<ufos, calls, files, dirs>>
    /\ UNCHANGED <<args, need_reload, glyphs, todo, include, outline, stack>>

RunVariable ==
    /\ pc = "variable"
    /\ IF wants_variable(args.output)
       THEN IF args.designspace_path = None
            THEN /\ pc' = "TypeError"
                 /\ UNCHANGED calls
            ELSE /\ pc' = "returned"
                 /\ calls' = Append(calls, [op |-> "varLib.main",
                                            path |-> args.designspace_path])
       ELSE /\ pc' = "returned"
            /\ UNCHANGED calls
    /\ UNCHANGED <<args, ufos, need_reload, files, dirs, glyphs, todo, include, outline, stack>>

NoFont == [a \in {} |-> 0]

\* The `ufos` argument: a non-empty list of distinct sources.
SourceLists ==
    {u \in BoundedSeq(SourcePaths, NumFonts) :
        /\ u # <<>>
        /\ \A i, j \in DOMAIN u : u[i] = u[j] => i = j}

RunArgs ==
    {[output |-> o, ufos |-> u, designspace_path |-> d, remove_overlaps |-> r,
      is_instance |-> FALSE, autohint |-> None, subset |-> None,
      use_production_names |-> None] :
        o \in BoundedSeq(Formats, MaxOutput),
        u \in SourceLists,
        d \in {None, "Family.designspace"},
        r \in BOOLEAN}

Init ==
    /\ args \in RunArgs
    /\ pc = "start"
    /\ ufos = <<>>
    /\ need_reload = FALSE
    /\ calls = <<>>
    /\ files = NoFont
    /\ dirs = {}
    /\ glyphs = NoFont
    /\ todo = {}
    /\ include = <<>>
    /\ outline = <<>>
    /\ stack = <<>>

Next == RunStart \/ RunOtf \/ RunTtf \/ RunInterpolatable \/ RunVariable

Spec == Init /\ [][Next]_vars

\* ------------------------------------------------- save_otfs called directly
SaveArgs ==
    {[ufos |-> u, ttf |-> t, is_instance |-> n, interpolatable |-> p, autohint |-> a,
      subset |-> s, use_production_names |-> q] :
        u \in SourceLists, t \in BOOLEAN, n \in BOOLEAN, p \in BOOLEAN,
        a \in {None, "--no-info"}, s \in {None, True, False}, q \in {None, True, False}}

SaveKw ==
    [ttf |-> args.ttf, is_instance |-> args.is_instance,
     interpolatable |-> args.interpolatable, autohint |-> args.autohint,
     subset |-> args.subset, use_production_names |-> args.use_production_names]

InitSave ==
    /\ args \in SaveArgs
    /\ pc = "start"
    /\ ufos = load(args.ufos)
    /\ need_reload = FALSE
    /\ calls = <<>>
    /\ files = NoFont
    /\ dirs = {}
    /\ glyphs = NoFont
    /\ todo = {}
    /\ include = <<>>
    /\ outline = <<>>
    /\ stack = <<>>

SaveOtfs ==
    /\ pc = "start"
    /\ pc' = "returned"
    /\ Install(save_otfs(State, SaveKw))
    /\ UNCHANGED <<args, need_reload, glyphs, todo, include, outline, stack>>

NextSave == SaveOtfs

SpecSave == InitSave /\ [][NextSave]_vars

\* ------------------------------------------------------- subset_otf_from_ufo
MaxOrder == 3       \* longest glyph order

GlyphNames == {".notdef", "a", "b"}
\* Names the compiled binary may carry (production names).
BinaryNames == {".notdef", "uni0061", "uni0062"}

Distinct(s) == \A i, j \in DOMAIN s : s[i] = s[j] => i = j
Min(a, b) == IF a < b THEN a ELSE b

\* zip(a, b): pairs up to the shorter of the two.
Zip(a, b) == [i \in 1..Min(Len(a), Len(b)) |-> <<a[i], b[i]>>]

\* `set(ufo.lib.get(GLYPHS_PREFIX + 'Keep Glyphs', []))`
keep_glyphs(ufo) == IF ufo.hasKeepGlyphs THEN ufo.keepGlyphs ELSE {}

\* `[glyph_name for glyph_name in ufo.lib['public.glyphOrder'] if glyph_name in ufo]`
ufo_order(ufo) == SelectSeq(ufo.glyphOrder, LAMBDA n : n \in ufo.present)

\* The test of lines 250-251 under which a pair is skipped.
skipped(ufo, old_name) ==
    \/ (keep_glyphs(ufo) # {} /\ old_name \notin keep_glyphs(ufo))
    \/ old_name \in ufo.unexported

include_list_unpaired_kept(ufo, binary_order) ==
    LET order == ufo_order(ufo)
        pairs == [i \in DOMAIN order |->
                     IF i <= Len(binary_order) THEN <<order[i], binary_order[i]>>
                     ELSE <<order[i], order[i]>>]
        kept == SelectSeq(pairs, LAMBDA q : ~skipped(ufo, q[1]))
    IN [i \in DOMAIN kept |-> kept[i][2]]

include_list(ufo, binary_order) ==
    LET pairs == Zip(ufo_order(ufo), binary_order)
        kept == SelectSeq(pairs, LAMBDA q : ~skipped(ufo, q[1]))
    IN [i \in DOMAIN kept |-> kept[i][2]]

\* subset.Subsetter with the options of lines 256-266, populated with
\* glyphs=include: the glyphs of the binary that are requested, and its
\* .notdef, which the options leave in (notdef_outline keeps its outline).
subsetted_order(binary_order, requested) ==
    SelectSeq(binary_order, LAMBDA n : n \in Range(requested) \/ n = ".notdef")

OrdersOf(names) == {s \in BoundedSeq(names, MaxOrder) : Distinct(s)}

\* The font as subset_otf_from_ufo reads it, and the glyph order of the binary
\* at otf_path.
InitSubset ==
    /\ \E o \in OrdersOf(GlyphNames), q \in SUBSET GlyphNames, b \in OrdersOf(BinaryNames),
          h \in BOOLEAN :
          \E x \in SUBSET q, k \in (IF h THEN SUBSET GlyphNames ELSE {{}}) :
              args = [glyphOrder |-> o, present |-> q, unexported |-> x,
                      hasKeepGlyphs |-> h, keepGlyphs |-> k, binaryOrder |-> b]
    /\ pc = "start"
    /\ ufos = <<>>
    /\ need_reload = FALSE
    /\ calls = <<>>
    /\ files = ("otf_path" :> args.binaryOrder)
    /\ dirs = {}
    /\ glyphs = NoFont
    /\ todo = {}
    /\ include = <<>>
    /\ outline = <<>>
    /\ stack = <<>>

SubsetOtfFromUfo ==
    /\ pc = "start"
    /\ pc' = "returned"
    /\ include' = include_list(args, files["otf_path"])
    /\ files' = [files EXCEPT !["otf_path"] = subsetted_order(@, include')]
    /\ UNCHANGED <<args, ufos, need_reload, calls, dirs, glyphs, todo, outline, stack>>

NextSubset == SubsetOtfFromUfo

SpecSubset == InitSubset /\ [][NextSubset]_vars

\* ---------------------------------------------------------- decompose_glyphs
NGlyphs == 3        \* glyphs in the font
MaxComps == 2       \* components in the font

\* A transformation is <<xx, xy, yx, yy, dx, dy>>; Transform() is the identity.
Identity == <<1, 0, 0, 1, 0, 0>>

\* The component transformations a source may carry: a shift, a horizontal
\* flip about x = 1 (the two do not commute), and a projection onto the x axis.
Transforms == {<<1, 0, 0, 1, 1, 0>>, <<-1, 0, 0, 1, 2, 0>>, <<1, 0, 0, 0, 0, 0>>}

\* Transform.transform(other): `other` applied first, then `self`.
transform(self, other) ==
    <<other[1] * self[1] + other[2] * self[3],
      other[1] * self[2] + other[2] * self[4],
      other[3] * self[1] + other[4] * self[3],
      other[3] * self[2] + other[4] * self[4],
      self[1] * other[5] + self[3] * other[6] + self[5],
      self[2] * other[5] + self[4] * other[6] + self[6]>>

transformPoint(t, pt) ==
    <<t[1] * pt[1] + t[3] * pt[2] + t[5], t[2] * pt[1] + t[4] * pt[2] + t[6]>>

\* `xx * yy - xy * yx`
determinant(t) == t[1] * t[4] - t[2] * t[3]

Reverse(s) == [i \in DOMAIN s |-> s[Len(s) + 1 - i]]

\* The pen of lines 120-126 receiving one contour: ReverseContourPen reverses
\* the point order, TransformPen maps each point.
reverses(transformation) == determinant(transformation) < 0

draw_contour(contour, transformation) ==
    LET ordered == IF reverses(transformation) THEN Reverse(contour) ELSE contour
    IN [i \in DOMAIN ordered |-> transformPoint(transformation, ordered[i])]

\* component.draw(pen): every contour of the component, in order.
draw(contours, transformation) ==
    [i \in DOMAIN contours |-> draw_contour(contours[i], transformation)]

\* _deep_copy_contours(ufo, parent, component, transformation), returning the
\* parent's contour list; `drawn` is that list when the call starts.
RECURSIVE deep_copy_contours(_, _, _, _, _)
RECURSIVE copy_nested(_, _, _, _, _, _)

copy_nested(ufo, parent, components, i, transformation, drawn) ==
    IF i > Len(components) THEN drawn
    ELSE copy_nested(ufo, parent, components, i + 1, transformation,
                     deep_copy_contours(ufo, parent, components[i].baseGlyph,
                                        transform(transformation,
                                                  components[i].transformation),
                                        drawn))

deep_copy_contours_own_transform(ufo, parent, component, transformation, drawn) ==
    LET RECURSIVE nested(_, _)
        nested(i, acc) ==
            IF i > Len(ufo[component].components) THEN acc
            ELSE nested(i + 1,
                        deep_copy_contours(ufo, parent,
                                           ufo[component].components[i].baseGlyph,
                                           ufo[component].components[i].transformation,
                                           acc))
        copied == nested(1, drawn)
    IN IF component # parent
       THEN copied \o draw(ufo[component].contours, transformation)
       ELSE copied

deep_copy_contours_redraws_self(ufo, parent, component, transformation, drawn) ==
    copy_nested(ufo, parent, ufo[component].components, 1, transformation, drawn)
        \o draw(ufo[component].contours, transformation)

deep_copy_contours(ufo, parent, component, transformation, drawn) ==
    LET copied == copy_nested(ufo, parent, ufo[component].components, 1,
                              transformation, drawn)
    IN IF component # parent
       THEN copied \o draw(ufo[component].contours, transformation)
       ELSE copied

\* One iteration of `for glyph in ufo`: lines 108-109.
decompose_keep_components(ufo, glyph) ==
    [ufo EXCEPT ![glyph].contours =
                    deep_copy_contours(ufo, glyph, glyph, Identity, ufo[glyph].contours)]

decompose_glyph_moving(ufo, glyph) ==
    [g \in DOMAIN ufo |->
        IF g = glyph
        THEN [contours |-> deep_copy_contours(ufo, glyph, glyph, Identity, ufo[glyph].contours),
              components |-> <<>>]
        ELSE IF \E i \in DOMAIN ufo[glyph].components : ufo[glyph].components[i].baseGlyph = g
        THEN [ufo[g] EXCEPT !.contours = <<>>]
        ELSE ufo[g]]

decompose_glyph(ufo, glyph) ==
    [ufo EXCEPT ![glyph] =
        [contours |-> deep_copy_contours(ufo, glyph, glyph, Identity, ufo[glyph].contours),
         components |-> <<>>]]

\* The sources: a glyph owns at most one contour, and components refer to
\* glyphs of higher number, so the component graph is acyclic.
GlyphSet == 1..NGlyphs

Outline(g) == <<<<10 * g + 1, 0>>, <<10 * g + 2, 1>>, <<10 * g + 3, 0>>>>

ComponentRefs ==
    {[owner |-> g, baseGlyph |-> b, transformation |-> t] :
        g \in GlyphSet, b \in GlyphSet, t \in Transforms}

ComponentLists ==
    {s \in BoundedSeq({c \in ComponentRefs : c.owner < c.baseGlyph}, MaxComps) :
        \A i \in 1..(Len(s) - 1) : s[i].owner <= s[i + 1].owner}

ComponentsOf(s, g) ==
    LET mine == SelectSeq(s, LAMBDA c : c.owner = g)
    IN [i \in DOMAIN mine |->
           [baseGlyph |-> mine[i].baseGlyph, transformation |-> mine[i].transformation]]

SourceFont(s, withOutline) ==
    [g \in GlyphSet |->
        [contours |-> IF g \in withOutline THEN <<Outline(g)>> ELSE <<>>,
         components |-> ComponentsOf(s, g)]]

\* Either every glyph owns a contour, or only the glyphs without components do
\* (pure composites).
OutlineChoices(s) == {GlyphSet, {g \in GlyphSet : ComponentsOf(s, g) = <<>>}}

InitDecompose ==
    /\ \E s \in ComponentLists :
       \E w \in OutlineChoices(s) :
          /\ args = [ufo |-> SourceFont(s, w)]
          /\ glyphs = SourceFont(s, w)
    /\ pc = "start"
    /\ ufos = <<>>
    /\ need_reload = FALSE
    /\ calls = <<>>
    /\ files = NoFont
    /\ dirs = {}
    /\ todo = GlyphSet
    /\ include = <<>>
    /\ outline = <<>>
    /\ stack = <<>>

\* `for glyph in ufo`: the font hands out its glyphs in no fixed order.
DecomposeGlyph ==
    /\ pc = "start"
    /\ \E glyph \in todo :
          /\ glyphs' = decompose_glyph(glyphs, glyph)
          /\ todo' = todo \ {glyph}
          /\ calls' = Append(calls, glyph)
    /\ UNCHANGED <<args, pc, ufos, need_reload, files, dirs, include, outline, stack>>

DecomposeReturn ==
    /\ pc = "start"
    /\ todo = {}
    /\ pc' = "returned"
    /\ UNCHANGED <<args, ufos, need_reload, calls, files, dirs, glyphs, todo, include, outline, stack>>

NextDecompose == DecomposeGlyph \/ DecomposeReturn

SpecDecompose == InitDecompose /\ [][NextDecompose]_vars

\* ------------------------------------- _deep_copy_contours, call by call
\* The same pass with the recursion unfolded: one frame per call in progress,
\* holding the glyph being copied from, the position of its loop over
\* `component.components`, and the transform handed to the call.  Components
\* may refer to any glyph here, the owner included.
MaxDepth == 4       \* deepest call stack explored

Shift == <<1, 0, 0, 1, 1, 0>>

AnyComponentLists ==
    {s \in BoundedSeq({c \in ComponentRefs : c.transformation = Shift}, MaxComps) :
        \A i \in 1..(Len(s) - 1) : s[i].owner <= s[i + 1].owner}

Top == stack[Len(stack)]
Parent == stack[1].component
Pop(s) == SubSeq(s, 1, Len(s) - 1)

\* The components the loop at line 114 iterates over.
nested_unless_in_progress(font, frames) ==
    LET component == frames[Len(frames)].component
    IN IF \E i \in 1..(Len(frames) - 1) : frames[i].component = component
       THEN <<>>
       ELSE font[component].components

nested_of(font, frames) == font[frames[Len(frames)].component].components

InitRecursion ==
    /\ \E s \in AnyComponentLists :
       \E w \in OutlineChoices(s) :
          /\ args = [ufo |-> SourceFont(s, w)]
          /\ glyphs = SourceFont(s, w)
    /\ pc = "start"
    /\ ufos = <<>>
    /\ need_reload = FALSE
    /\ calls = <<>>
    /\ files = NoFont
    /\ dirs = {}
    /\ todo = GlyphSet
    /\ include = <<>>
    /\ outline = <<>>
    /\ stack = <<>>

\* line 108: the loop picks the next glyph and makes the outermost call
CallDeepCopy ==
    /\ pc = "start"
    /\ stack = <<>>
    /\ \E glyph \in todo :
          stack' = <<[component |-> glyph, next |-> 1, transformation |-> Identity]>>
    /\ UNCHANGED <<args, pc, ufos, need_reload, calls, files, dirs, glyphs, todo, include, outline>>

\* lines 114-117: the call on top recurses into its next nested component
Recurse ==
    /\ pc = "start"
    /\ stack # <<>>
    /\ Top.next <= Len(nested_of(glyphs, stack))
    /\ Len(stack) < MaxDepth
    /\ LET nested == nested_of(glyphs, stack)[Top.next]
       IN stack' = Append([stack EXCEPT ![Len(stack)].next = @ + 1],
                          [component |-> nested.baseGlyph,
                           next |-> 1,
                           transformation |-> transform(Top.transformation,
                                                        nested.transformation)])
    /\ UNCHANGED <<args, pc, ufos, need_reload, calls, files, dirs, glyphs, todo, include, outline>>

\* lines 119-128: an inner call has finished its loop; it draws its glyph
\* into the parent unless that glyph is the parent, and returns
ReturnFromNested ==
    /\ pc = "start"
    /\ Len(stack) > 1
    /\ Top.next > Len(nested_of(glyphs, stack))
    /\ glyphs' = IF Top.component # Parent
                 THEN [glyphs EXCEPT ![Parent].contours =
                          @ \o draw(glyphs[Top.component].contours, Top.transformation)]
                 ELSE glyphs
    /\ stack' = Pop(stack)
    /\ UNCHANGED <<args, pc, ufos, need_reload, calls, files, dirs, todo, include, outline>>

\* lines 108-109: the outermost call returns and the glyph's components are
\* cleared
FinishGlyph ==
    /\ pc = "start"
    /\ Len(stack) = 1
    /\ Top.next > Len(nested_of(glyphs, stack))
    /\ glyphs' = [glyphs EXCEPT ![Parent].components = <<>>]
    /\ todo' = todo \ {Parent}
    /\ stack' = <<>>
    /\ UNCHANGED <<args, pc, ufos, need_reload, calls, files, dirs, include, outline>>

ReturnFromDecompose ==
    /\ pc = "start"
    /\ stack = <<>>
    /\ todo = {}
    /\ pc' = "returned"
    /\ UNCHANGED <<args, ufos, need_reload, calls, files, dirs, glyphs, todo, include, outline, stack>>

NextRecursion ==
    CallDeepCopy \/ Recurse \/ ReturnFromNested \/ FinishGlyph \/ ReturnFromDecompose

\* One thread runs the pass: whenever it has a next step, it takes it.
SpecRecursion == InitRecursion /\ [][NextRecursion]_vars /\ WF_vars(NextRecursion)

\* ------------------------------- FDKFeatureCompiler.setupFile_featureTables
MaxText == 2        \* longest feature text, in characters
MaxReport == 2      \* longest makeotf report, in lines

Tables == <<"GDEF", "GPOS", "GSUB">>
TableTags == Range(Tables)

\* Feature text is a sequence of characters; " " stands for any whitespace.
Whitespace == {" "}
Chars == Whitespace \cup {"k"}
FeatureTexts == BoundedSeq(Chars, MaxText)

RECURSIVE lstrip(_)
lstrip(s) == IF s # <<>> /\ Head(s) \in Whitespace THEN lstrip(Tail(s)) ELSE s

strip(s) == Reverse(lstrip(Reverse(lstrip(s))))

\* What the makeotf process can do, as check_output sees it: an exit status,
\* the text it wrote (a sequence of lines) and the layout tables of the font
\* it left at feasrc_path.
ReportLines == {"makeotf [FATAL] syntax error in feature file", "Built development mode font.", "Done."}
Reports == BoundedSeq(ReportLines, MaxReport)
MakeotfRuns == [status : {0, 1}, report : Reports, tables : SUBSET TableTags]

\* "Done." in report
Contains(report, line) == \E i \in DOMAIN report : report[i] = line

FailureMessage == <<"Feature syntax compilation failed.">>

TempFiles == {"outline_path", "feasrc_path", "fea_path"}

\* The base compiler builds one table per MTI source it is given.
base_setupFile_featureTables(o, mtiFeaFiles) ==
    [t \in DOMAIN o \cup mtiFeaFiles |-> IF t \in mtiFeaFiles THEN "mti" ELSE o[t]]

\* for table in ["GDEF", "GPOS", "GSUB"]: if table in feasrc: outline[table] = feasrc[table]
copy_tables(o, feasrc) ==
    LET copied == {Tables[i] : i \in {j \in DOMAIN Tables : Tables[j] \in feasrc}}
    IN [t \in DOMAIN o \cup copied |-> IF t \in copied THEN "makeotf" ELSE o[t]]

after_makeotf_copy_always(o, run) == copy_tables(o, run.tables)

after_makeotf(o, run) ==
    IF Contains(run.report, "Done.") THEN copy_tables(o, run.tables) ELSE o

InitFDK ==
    /\ \E h \in BOOLEAN, f \in FeatureTexts, r \in MakeotfRuns :
           \E m \in (IF h THEN SUBSET TableTags ELSE {{}}) :
               args = [hasMtiFeaFiles |-> h, mtiFeaFiles |-> m, features |-> f, makeotf |-> r]
    /\ pc = "start"
    /\ ufos = <<>>
    /\ need_reload = FALSE
    /\ calls = <<>>
    /\ files = <<>>
    /\ dirs = {}
    /\ glyphs = NoFont
    /\ todo = {}
    /\ include = <<>>
    /\ outline = <<>>
    /\ stack = <<>>

SetupFileFeatureTables ==
    /\ pc = "start"
    /\ LET built == IF args.hasMtiFeaFiles
                    THEN base_setupFile_featureTables(outline, args.mtiFeaFiles)
                    ELSE outline
           viaBase == IF args.hasMtiFeaFiles
                      THEN <<[op |-> "FeatureOTFCompiler.setupFile_featureTables"]>>
                      ELSE <<>>
           run == args.makeotf
           invoked == viaBase \o <<[op |-> "outline.save"],
                                   [op |-> "makeotf", features |-> args.features]>>
           printed == Append(invoked, [op |-> "print", text |-> run.report])
       IN IF ~args.hasMtiFeaFiles /\ strip(args.features) = <<>>
          THEN /\ pc' = "returned"
               /\ UNCHANGED <<calls, files, outline, stack>>
          ELSE IF run.status # 0
          THEN /\ pc' = "CalledProcessError"
               /\ calls' = invoked
               /\ files' = [p \in TempFiles |-> "temporary"]
               /\ outline' = built
          ELSE /\ outline' = after_makeotf(built, run)
               /\ files' = <<>>
               /\ IF Contains(run.report, "Done.")
                  THEN /\ pc' = "returned"
                       /\ calls' = printed
                  ELSE /\ pc' = "ValueError"
                       /\ calls' = Append(printed, [op |-> "raise", message |-> FailureMessage])
    /\ UNCHANGED <<args, ufos, need_reload, dirs, glyphs, todo, include, stack>>

NextFDK == SetupFileFeatureTables

SpecFDK == InitFDK /\ [][NextFDK]_vars

\* ===================================================================== claims
BranchOps == {"build_otfs", "build_ttfs", "build_interpolatable_ttfs"}
StageOps == {"decompose_glyphs", "remove_overlaps", "font_to_quadratic", "fonts_to_quadratic"}
CompileOps == {"compileOTF", "compileTTF"}
EmitOps == CompileOps \cup {"save"}

Ops(s) == [i \in DOMAIN s |-> s[i].op]
IsMajor(e) == e.op \in BranchOps \cup {"varLib.main"}
Ended == pc \in {"returned", "TypeError"}
Requested(f) == f \in Range(args.output)

\* C1: when 'variable' is requested without a designspace path, the TypeError
\* is raised before any work: at that moment no normalization stage has run,
\* no binary has been compiled or written and no output directory exists.
C1_ErrorBeforeAnyIO ==
    pc = "TypeError" =>
        /\ \A i \in DOMAIN calls : calls[i].op \notin StageOps \cup EmitOps
        /\ DOMAIN files = {}
        /\ dirs = {}

\* C2: every format branch is entered with Font objects that carry no in-place
\* mutation, and whenever an earlier branch has run they are the fonts as
\* loaded from the source paths.
C2_BranchesStartFresh ==
    \A i \in DOMAIN calls :
        calls[i].op \in BranchOps =>
            /\ \A j \in DOMAIN calls[i].ufos : calls[i].ufos[j].muts = <<>>
            /\ Len(calls[i].ufos) = Len(args.ufos)
            /\ (\E k \in 1..(i - 1) : calls[k].op \in BranchOps) =>
                   \A j \in DOMAIN calls[i].ufos : calls[i].ufos[j] = Font(args.ufos[j])

C2_Witness ==
    /\ pc = "returned"
    /\ {"build_otfs", "build_ttfs", "build_interpolatable_ttfs"} \subseteq Range(Ops(calls))

\* C3 as stated: the branches run in the order CFF, TrueType, interpolatable,
\* variable-font construction, each at most once and iff requested, the
\* interpolatable one iff 'ttf-interpolatable' or 'variable' is requested, and
\* variable-font construction iff 'variable' is requested.
C3_Order(withVariable) ==
    (IF Requested("otf") THEN <<"build_otfs">> ELSE <<>>)
    \o (IF Requested("ttf") THEN <<"build_ttfs">> ELSE <<>>)
    \o (IF Requested("ttf-interpolatable") \/ Requested("variable")
        THEN <<"build_interpolatable_ttfs">> ELSE <<>>)
    \o (IF withVariable THEN <<"varLib.main">> ELSE <<>>)

IsPrefix(s, t) == Len(s) <= Len(t) /\ \A i \in DOMAIN s : s[i] = t[i]

C3_AsStated ==
    LET ran == Ops(SelectSeq(calls, IsMajor))
    IN Ended => ran = C3_Order(Requested("variable"))

\* C3 as amended: as above, but variable-font construction runs iff 'variable'
\* is requested and a designspace path was supplied; with no designspace path
\* the call ends in the TypeError after the interpolatable branch.
C3_FixedBranchOrder ==
    LET ran == Ops(SelectSeq(calls, IsMajor))
        want == C3_Order(Requested("variable") /\ args.designspace_path # None)
    IN /\ IsPrefix(ran, want)
       /\ Ended => ran = want
       /\ pc = "TypeError" <=>
              (Ended /\ Requested("variable") /\ args.designspace_path = None)

C3_Witness ==
    /\ pc = "returned"
    /\ Len(args.output) = 3
    /\ args.output[1] = "variable" /\ args.output[2] = "otf" /\ args.output[3] = "otf"
    /\ Ops(SelectSeq(calls, IsMajor)) =
           <<"build_otfs", "build_interpolatable_ttfs", "varLib.main">>

\* C4: each branch runs exactly its own normalization sequence on all fonts
\* before its first binary is compiled: CFF decomposes, then removes overlaps
\* iff remove_overlaps; TrueType removes overlaps iff remove_overlaps, then
\* converts each font's curves independently; interpolatable TrueType only
\* converts the curves of all fonts together.
SegEnd(k) ==
    LET later == {i \in DOMAIN calls : i > k /\ IsMajor(calls[i])}
    IN IF later = {} THEN Len(calls) + 1
       ELSE CHOOSE i \in later : \A j \in later : i <= j

Segment(k) == SubSeq(calls, k + 1, SegEnd(k) - 1)

C4_Stages(op) ==
    LET n == Len(args.ufos)
        overlaps == IF args.remove_overlaps THEN <<"remove_overlaps">> ELSE <<>>
    IN CASE op = "build_otfs" -> <<"decompose_glyphs">> \o overlaps
         [] op = "build_ttfs" -> overlaps \o [i \in 1..n |-> "font_to_quadratic"]
         [] op = "build_interpolatable_ttfs" -> <<"fonts_to_quadratic">>

C4_CoversAllFonts(e) ==
    IF e.op = "font_to_quadratic" THEN Len(e.ufos) = 1
    ELSE [j \in DOMAIN e.ufos |-> e.ufos[j].path] = args.ufos

C4_NormalizationPerBranch ==
    \A k \in DOMAIN calls :
        calls[k].op \in BranchOps =>
            LET seg == Segment(k)
                stages == SelectSeq(seg, LAMBDA e : e.op \in StageOps)
                converted == SelectSeq(seg, LAMBDA e : e.op = "font_to_quadratic")
            IN /\ Ops(stages) = C4_Stages(calls[k].op)
               /\ \A i \in DOMAIN stages : C4_CoversAllFonts(stages[i])
               /\ [j \in DOMAIN converted |-> converted[j].ufos[1].path] =
                      (IF calls[k].op = "build_ttfs" THEN args.ufos ELSE <<>>)
               /\ \A i, j \in DOMAIN seg :
                      seg[i].op \in StageOps /\ seg[j].op \in EmitOps => i < j
               /\ Cardinality({j \in DOMAIN seg : seg[j].op \in CompileOps}) = Len(args.ufos)

C4_Witness ==
    /\ pc = "returned"
    /\ args.remove_overlaps
    /\ Len(args.ufos) = 2
    /\ BranchOps \subseteq Range(Ops(calls))

\* C5: in save_otfs each font's binary is compiled and saved, then optionally
\* subsetted in place, then optionally autohinted; autohinting happens iff the
\* build is TrueType and autohint parameters were given; the hinted copy goes
\* under autohinted/, is made from the already subsetted binary, and the
\* unhinted binary stays in place.
SaveOps == CompileOps \cup {"save", "subset_otf_from_ufo", "ttfautohint"}

C5_StepOrder(steps) ==
    \A k \in DOMAIN steps :
        LET e == steps[k]
        IN CASE e.op \in CompileOps ->
                  /\ k < Len(steps) /\ steps[k + 1].op = "save"
                  /\ (e.op = "compileTTF") = args.ttf
             [] e.op = "save" ->
                  /\ k > 1 /\ steps[k - 1].op \in CompileOps
                  /\ steps[k - 1].ufos = e.ufos
                  /\ e.path.dir.parent = ""
             [] e.op = "subset_otf_from_ufo" ->
                  /\ k > 1 /\ steps[k - 1].op = "save"
                  /\ steps[k - 1].ufos = e.ufos
                  /\ steps[k - 1].path = e.path
             [] e.op = "ttfautohint" ->
                  /\ k > 1 /\ steps[k - 1].op \in {"save", "subset_otf_from_ufo"}
                  /\ steps[k - 1].ufos = e.ufos
                  /\ steps[k - 1].path = e.from
                  /\ e.path.dir.parent = "autohinted"
                  /\ e.path = [e.from EXCEPT !.dir.parent = "autohinted"]
                  /\ e.input.subsetted = (steps[k - 1].op = "subset_otf_from_ufo")
                  /\ ~e.input.hinted
                  /\ k < Len(steps) => steps[k + 1].op \in CompileOps

C5_SaveThenSubsetThenAutohint ==
    LET steps == SelectSeq(calls, LAMBDA e : e.op \in SaveOps)
        hinting == args.ttf /\ args.autohint # None
    IN /\ C5_StepOrder(steps)
       /\ pc = "returned" =>
            /\ \A i \in DOMAIN args.ufos :
                   Cardinality({k \in DOMAIN steps :
                                   /\ steps[k].op = "ttfautohint"
                                   /\ steps[k].ufos[1].path = args.ufos[i]}) =
                       (IF hinting THEN 1 ELSE 0)
            /\ \A q \in DOMAIN files :
                   IF q.dir.parent = "autohinted"
                   THEN LET plain == [q EXCEPT !.dir.parent = ""]
                        IN /\ plain \in DOMAIN files
                           /\ files[q] = [files[plain] EXCEPT !.hinted = TRUE]
                   ELSE ~files[q].hinted

C5_Witness ==
    /\ pc = "returned"
    /\ args.ttf /\ args.autohint # None
    /\ Len(args.ufos) = 2
    /\ \A i \in DOMAIN args.ufos :
           \E q \in DOMAIN files :
               /\ q.file = args.ufos[i] /\ q.dir.parent = "autohinted"
               /\ files[q].subsetted /\ files[q].hinted

\* C7: with subset not provided, a font's binary is subsetted iff that font
\* itself has a 'Keep Glyphs' entry or a glyph whose export flag is False.
C7_SubsetPerFont ==
    (pc = "returned" /\ args.subset = None) =>
        \A i \in DOMAIN args.ufos :
            (\E k \in DOMAIN calls :
                 /\ calls[k].op = "subset_otf_from_ufo"
                 /\ calls[k].ufos[1].path = args.ufos[i])
            <=> (Font(args.ufos[i]).keepGlyphs \/ Font(args.ufos[i]).unexported)

\* C8: with use_production_names not provided, the flag given to the compiler
\* for a font is true iff that font does not set "Don't use Production Names".
C8_ProductionNamesPerFont ==
    (pc = "returned" /\ args.use_production_names = None) =>
        \A k \in DOMAIN calls :
            calls[k].op \in CompileOps =>
                calls[k].useProductionNames =
                    Bool(~calls[k].ufos[1].dontUseProductionNames)

\* C6: the names handed to the subsetter are exactly those of the public glyph
\* order that are present in the font, minus the glyphs whose export flag is
\* false, minus the glyphs a non-empty keep-list leaves out; each contributes
\* the binary's name at its position, in the original relative order; and
\* .notdef stays in the subsetted binary whatever the keep-list and its flag.
C6_Retained(ufo) ==
    SelectSeq(ufo.glyphOrder,
              LAMBDA n : /\ n \in ufo.present
                         /\ n \notin ufo.unexported
                         /\ (ufo.hasKeepGlyphs /\ ufo.keepGlyphs # {}) => n \in ufo.keepGlyphs)

C6_Position(ufo, n) ==
    LET order == SelectSeq(ufo.glyphOrder, LAMBDA m : m \in ufo.present)
    IN CHOOSE i \in DOMAIN order : order[i] = n

C6_RetainedNames ==
    pc = "returned" =>
        LET retained == C6_Retained(args)
        IN /\ Len(include) = Len(retained)
           /\ \A i \in DOMAIN retained :
                  /\ C6_Position(args, retained[i]) \in DOMAIN args.binaryOrder
                  /\ i \in DOMAIN include
                  /\ include[i] = args.binaryOrder[C6_Position(args, retained[i])]
           /\ ".notdef" \in Range(args.binaryOrder) => ".notdef" \in Range(files["otf_path"])

\* The same statement for binaries whose glyph order is at least as long as
\* the font's filtered order (kept to cross-check the model of the pairing).
C6_RetainedNamesWhenPaired ==
    Len(args.binaryOrder) >= Len(SelectSeq(args.glyphOrder, LAMBDA m : m \in args.present))
        => C6_RetainedNames

\* C14: a difference in length between the filtered glyph order and the
\* binary's glyph order raises nothing; only the first min(length) positions
\* are paired, and no name beyond them is put on the list to retain.
C14_SilentTruncation ==
    /\ pc \in {"start", "returned"}
    /\ pc = "returned" =>
           LET order == ufo_order(args)
               n == Min(Len(order), Len(args.binaryOrder))
               considered == {i \in 1..n : ~skipped(args, order[i])}
           IN /\ Len(include) = Cardinality(considered)
              /\ Range(include) = {args.binaryOrder[i] : i \in considered}
              /\ \A i \in DOMAIN args.binaryOrder :
                     i > n => args.binaryOrder[i] \notin Range(include)
              /\ \A j, k \in DOMAIN include :
                     j < k => \E a, b \in considered :
                                  /\ a < b
                                  /\ include[j] = args.binaryOrder[a]
                                  /\ include[k] = args.binaryOrder[b]

\* The font lists more glyphs than the binary holds, and the last of them
\* would have been retained had it been paired.
C14_Witness ==
    /\ pc = "returned"
    /\ Len(ufo_order(args)) > Len(args.binaryOrder)
    /\ Len(args.binaryOrder) > 0
    /\ ~skipped(args, ufo_order(args)[Len(ufo_order(args))])
    /\ include # <<>>

\* ------------------------------------------------ decomposition, expected
\* Every component path from glyph g of the source font, with the transform
\* accumulated along it: one record per contour of the glyph the path ends at.
RECURSIVE PathCopies(_, _, _, _)
PathCopies(g, t, singular, odd) ==
    LET comps == args.ufo[g].components
        RECURSIVE each(_)
        each(i) ==
            IF i > Len(comps) THEN <<>>
            ELSE LET c == comps[i]
                     t2 == transform(t, c.transformation)
                     s2 == singular \/ determinant(c.transformation) = 0
                     o2 == (odd # (determinant(c.transformation) < 0))
                     own == args.ufo[c.baseGlyph].contours
                 IN [k \in DOMAIN own |->
                        [contour |-> own[k], t |-> t2, singular |-> s2, odd |-> o2]]
                    \o PathCopies(c.baseGlyph, t2, s2, o2)
                    \o each(i + 1)
    IN each(1)

Copies(g) == PathCopies(g, Identity, FALSE, FALSE)

Placed(r) == [i \in DOMAIN r.contour |-> transformPoint(r.t, r.contour[i])]
Oriented(r) == IF determinant(r.t) < 0 THEN Reverse(Placed(r)) ELSE Placed(r)

BagOfSeq(s) == [x \in Range(s) |-> Cardinality({i \in DOMAIN s : s[i] = x})]
Unoriented(s) == [i \in DOMAIN s |-> {s[i], Reverse(s[i])}]

OwnContours(g) == args.ufo[g].contours
\* What decomposition added to glyph g: its contours after its own ones.
Added(g) == SubSeq(glyphs[g].contours, Len(OwnContours(g)) + 1, Len(glyphs[g].contours))

\* C9: once decompose_glyphs has completed, every glyph has zero components,
\* and a glyph that had components holds its own original contours plus the
\* contours of every transitively referenced glyph (one per component path,
\* placed by the path's transform), and nothing else.
C9_OnlyContoursAfterDecomposition ==
    /\ \A g \in GlyphSet \ todo : glyphs[g].components = <<>>
    /\ pc = "returned" =>
         \A g \in GlyphSet :
             /\ glyphs[g].components = <<>>
             /\ SubSeq(glyphs[g].contours, 1, Len(OwnContours(g))) = OwnContours(g)
             /\ LET copies == Copies(g)
                IN BagOfSeq(Unoriented(Added(g))) =
                       BagOfSeq(Unoriented([i \in DOMAIN copies |-> Placed(copies[i])]))

C9_Witness ==
    /\ pc = "returned"
    /\ Len(args.ufo[1].components) = 1 /\ args.ufo[1].components[1].baseGlyph = 2
    /\ Len(args.ufo[2].components) = 1 /\ args.ufo[2].components[1].baseGlyph = 3
    /\ \A g \in GlyphSet : args.ufo[g].contours # <<>>
    /\ Len(glyphs[1].contours) = 3 /\ Len(glyphs[2].contours) = 2

\* C10 as stated: every contour copied into a glyph has its point order
\* reversed iff the determinant of the transform accumulated along its
\* component path is negative, whatever the order of the pass.
C10_AsStated ==
    \A g \in GlyphSet \ todo :
        LET copies == Copies(g)
        IN BagOfSeq(Added(g)) = BagOfSeq([i \in DOMAIN copies |-> Oriented(copies[i])])

\* C10 as amended: the same for every copy whose component path carries no
\* transform of determinant zero; on such a path the accumulated determinant
\* is negative iff the path has an odd number of negative-determinant
\* transforms.
C10_ReversedIffNegativeDeterminant ==
    \A g \in GlyphSet \ todo :
        LET copies == Copies(g)
            regular == SelectSeq(copies, LAMBDA r : ~r.singular)
        IN /\ \A i \in DOMAIN regular :
                  (determinant(regular[i].t) < 0) = regular[i].odd
           /\ BagOfSeq([i \in DOMAIN regular |-> Oriented(regular[i])])
                  \sqsubseteq BagOfSeq(Added(g))
           /\ BagOfSeq(Unoriented(Added(g))) =
                  BagOfSeq(Unoriented([i \in DOMAIN copies |-> Placed(copies[i])]))

\* Glyph 1 refers to 2 and 2 to 3, both through the flip; 2 was decomposed
\* before 1, so 1 copies from 2 a contour that 2 had already reversed.
C10_Witness ==
    /\ pc = "returned"
    /\ Len(args.ufo[1].components) = 1 /\ args.ufo[1].components[1].baseGlyph = 2
    /\ Len(args.ufo[2].components) = 1 /\ args.ufo[2].components[1].baseGlyph = 3
    /\ determinant(args.ufo[1].components[1].transformation) < 0
    /\ determinant(args.ufo[2].components[1].transformation) < 0
    /\ args.ufo[3].contours # <<>>
    /\ \E i, j \in DOMAIN calls : i < j /\ calls[i] = 2 /\ calls[j] = 1
    /\ \E k \in DOMAIN glyphs[1].contours :
           glyphs[1].contours[k] =
               [n \in DOMAIN Outline(3) |->
                   transformPoint(transform(args.ufo[1].components[1].transformation,
                                            args.ufo[2].components[1].transformation),
                                  Outline(3)[n])]

\* C11: a glyph without components is left exactly as it was (its contours
\* are neither redrawn nor duplicated), and once the pass has completed,
\* decomposing any glyph again changes nothing in the font.
C11_NoOpOnSimpleGlyphs ==
    /\ \A g \in GlyphSet : args.ufo[g].components = <<>> => glyphs[g] = args.ufo[g]
    /\ pc = "returned" => \A g \in GlyphSet : decompose_glyph(glyphs, g) = glyphs

C11_Witness ==
    /\ pc = "returned"
    /\ \E g \in GlyphSet : args.ufo[g].components = <<>> /\ glyphs[g].contours # <<>>
    /\ \E g \in GlyphSet : args.ufo[g].components # <<>> /\ Len(glyphs[g].contours) >= 2

\* C13 as stated: the outcome of the pass is the same for every visiting
\* order, so each glyph ends as it would have if it had been visited first.
C13_AsStated ==
    pc = "returned" =>
        \A g \in GlyphSet : glyphs[g] = decompose_glyph(args.ufo, g)[g]

\* C13 as amended: in every order, a glyph not yet visited is untouched, a
\* glyph's own contours stay first and unaltered, and a visited glyph holds,
\* after them, exactly one placed copy per component path (as a multiset: the
\* position of the copies in the list is what varies with the order).
C13_SameContoursInEveryOrder ==
    /\ \A g \in todo : glyphs[g] = args.ufo[g]
    /\ \A g \in GlyphSet :
           SubSeq(glyphs[g].contours, 1, Len(OwnContours(g))) = OwnContours(g)
    /\ \A g \in GlyphSet \ todo :
           LET copies == Copies(g)
           IN /\ Len(Added(g)) = Len(copies)
              /\ BagOfSeq(Unoriented(Added(g))) =
                     BagOfSeq(Unoriented([i \in DOMAIN copies |-> Placed(copies[i])]))

\* Glyph 1 refers to 2 and 2 to 3; 2 is visited first, then 1 copies from it.
C13_Witness ==
    /\ todo = {3}
    /\ calls = <<2, 1>>
    /\ \E i \in DOMAIN args.ufo[1].components : args.ufo[1].components[i].baseGlyph = 2
    /\ \E i \in DOMAIN args.ufo[2].components : args.ufo[2].components[i].baseGlyph = 3
    /\ \A g \in GlyphSet : OwnContours(g) # <<>>
    /\ Len(Added(1)) = 2
    /\ glyphs[2].contours[1] = Outline(2)

\* ------------------------------------------------------ component cycles
Succ(g) == {args.ufo[g].components[i].baseGlyph : i \in DOMAIN args.ufo[g].components}

RECURSIVE Closure(_, _)
Closure(S, n) == IF n = 0 THEN S ELSE Closure(S \cup UNION {Succ(x) : x \in S}, n - 1)

\* The glyphs g refers to, directly or through other glyphs.
Reaches(g) == Closure(Succ(g), NGlyphs)
OnCycle(g) == g \in Reaches(g)
ReachesCycle(g) == OnCycle(g) \/ \E h \in Reaches(g) : OnCycle(h)
HasCycle == \E g \in GlyphSet : OnCycle(g)

\* C15: on an acyclic component graph the pass returns; on a cyclic one it
\* never does: no error state is ever entered, every glyph that leads into a
\* cycle stays unfinished, and the call stack grows to whatever depth it is
\* allowed and stays there.
C15_ReturnsIffAcyclic ==
    /\ ~HasCycle => <>(pc = "returned")
    /\ HasCycle => /\ [](pc = "start")
                   /\ [](\A g \in GlyphSet : ReachesCycle(g) => g \in todo)
                   /\ <>[](Len(stack) = MaxDepth)

\* A glyph that refers to itself, with the stack full of calls on it.
C15_Witness ==
    /\ Len(stack) = MaxDepth
    /\ \E g \in GlyphSet :
          /\ g \in Succ(g)
          /\ \A i \in DOMAIN stack : stack[i].component = g

\* ----------------------------------------------------- feature compilation
Count(s, op) == Cardinality({i \in DOMAIN s : s[i].op = op})
ReportedFailure == pc # "start" /\ Count(calls, "makeotf") > 0 /\ args.makeotf.status = 0
                       /\ ~Contains(args.makeotf.report, "Done.")

C16_OneMechanism ==
    pc # "start" =>
        IF args.hasMtiFeaFiles
        THEN /\ Count(calls, "FeatureOTFCompiler.setupFile_featureTables") = 1
             /\ Count(calls, "makeotf") = 0
        ELSE IF strip(args.features) = <<>>
        THEN calls = <<>> /\ outline = <<>>
        ELSE /\ Count(calls, "makeotf") = 1
             /\ Count(calls, "FeatureOTFCompiler.setupFile_featureTables") = 0

====
